---- MODULE Spec2Model ----
(***************************************************************************)
(* Duplicate-message detection bot (src/bot.py, ProductionDuplicateBot).   *)
(*                                                                         *)
(* The state is the SQLite table `messages`, the clock, the handlers       *)
(* suspended at `await message.reply_text(...)`, and the outputs of the    *)
(* last handler step (reply delivered, log line).                          *)
(*                                                                         *)
(* Time is counted in whole hours since an arbitrary UTC midnight.  A      *)
(* 'YYYY-MM-DD HH:MM:SS' string is the record [sep, d, h] of its separator,*)
(* day number and hour of day; SQLite compares such strings as text, which *)
(* is the lexicographic order on (d, h).                                   *)
(*                                                                         *)
(* Spec is the bot with a working storage, SpecFaults the bot whose        *)
(* sqlite3 statements may raise, SpecHash generate_message_hash on its own *)
(* and SpecSetup setup_database on the database file found at start-up.    *)
(*                                                                         *)
(* hashlib.md5 is modelled as collision free: the digest of a string is    *)
(* the record [md5 |-> string].                                            *)
(***************************************************************************)
EXTENDS Integers, Sequences, FiniteSets, TLC

VARIABLES
    now,        \* the real moment, hours since a UTC midnight
    rows,       \* the rows of table messages, as the connection sees them
    committed,  \* the rows of table messages, as last committed
    seq,        \* sqlite_sequence of messages: the largest id ever given
    awaiting,   \* the handlers suspended at await message.reply_text(...), oldest first
    sent,       \* the reply delivered by the last step, or NoReply
    last,       \* the last step taken: a step of a handler, or "tick"
    swept,      \* cursor.rowcount of the DELETE of the last step, else 0
    schema,     \* the table messages of the database file: "none", "legacy" or "current"
    conn,       \* self.conn: "open" or "closed"
    probe       \* a text and a variant of it, the arguments of generate_message_hash

vars == <<now, rows, committed, seq, awaiting, sent, last, swept, schema, conn, probe>>

-----------------------------------------------------------------------------
(* Bounds of the model *)

MaxId == 2
MaxAwaiting == 1
MaxLen == 6

\* the moments at which the clock is read: either side of the first hour,
\* of the 24 hours, of the 24 + 7 hours and of the 7 days + 7 hours after 0
Moments == {0, 1, 24, 25, 30, 31, 168, 175, 176}

-----------------------------------------------------------------------------
(* Program constants *)

HoursPerDay == 24
JakartaOffset == 7
DedupDays == 1
RetentionDays == 7
MinLength == 5

-----------------------------------------------------------------------------
(* Inputs *)

Chats == {1, 2}

UserA == [id |-> 1, first_name |-> "Ann"]
UserB == [id |-> 2, first_name |-> ""]
Users == {UserA, UserB}

TextHello  == <<"A", "b", " ", " ", "C", "d">>
TextHello2 == <<" ", "a", "B", " ", "c", "d">>
TextOther  == <<"v", "w", "x", "y", "z">>
TextShort  == <<" ", "h", "i", " ", " ", " ">>
Texts == {TextHello, TextHello2, TextOther, TextShort}

\* update.message of an incoming update
Message(chat, user, text) == [chat_id |-> chat, from_user |-> user, text |-> text]

Messages ==
    {Message(1, UserA, TextHello),
     Message(1, UserB, TextHello2),
     Message(2, UserA, TextHello),
     Message(1, UserB, TextOther),
     Message(2, UserB, TextShort)}

-----------------------------------------------------------------------------
(* str methods used on the message text *)

Whitespace == {" "}

\* LATIN SMALL LETTER DOTLESS I (U+0131): 'ı'.upper() == 'I', 'ı'.lower() == 'ı'
DotlessI == "dotless i"

LowerChar(c) ==
    CASE c = "A" -> "a"
      [] c = "B" -> "b"
      [] c = "C" -> "c"
      [] c = "I" -> "i"
      [] OTHER -> c

\* c.upper(), of the letters of the probe texts
UpperChar(c) ==
    CASE c = "a" -> "A"
      [] c = "b" -> "B"
      [] c = "c" -> "C"
      [] c = "i" -> "I"
      [] c = DotlessI -> "I"
      [] OTHER -> c

\* c.swapcase(), of the letters of the probe texts
SwapCaseChar(c) == IF UpperChar(c) # c THEN UpperChar(c) ELSE LowerChar(c)

\* text.lower()
Lower(s) == [i \in 1..Len(s) |-> LowerChar(s[i])]

RECURSIVE LStrip(_)
LStrip(s) ==
    IF s # <<>> /\ Head(s) \in Whitespace THEN LStrip(Tail(s)) ELSE s

RECURSIVE RStrip(_)
RStrip(s) ==
    IF s # <<>> /\ s[Len(s)] \in Whitespace
    THEN RStrip(SubSeq(s, 1, Len(s) - 1))
    ELSE s

\* text.strip()
Strip(s) == RStrip(LStrip(s))

\* text.split(): the maximal runs of non-whitespace characters
RECURSIVE SplitFrom(_, _, _)
SplitFrom(s, word, words) ==
    IF s = <<>>
    THEN IF word = <<>> THEN words ELSE Append(words, word)
    ELSE IF Head(s) \in Whitespace
         THEN SplitFrom(Tail(s), <<>>,
                        IF word = <<>> THEN words ELSE Append(words, word))
         ELSE SplitFrom(Tail(s), Append(word, Head(s)), words)

Split(s) == SplitFrom(s, <<>>, <<>>)

\* ' '.join(words)
RECURSIVE Join(_)
Join(words) ==
    IF words = <<>> THEN <<>>
    ELSE IF Len(words) = 1 THEN Head(words)
    ELSE Head(words) \o <<" ">> \o Join(Tail(words))

NormalizeNoLower(text) == Join(Split(text))

\* normalized_text = ' '.join(text.lower().split())
Normalize(text) == Join(Split(Lower(text)))

RawHash(text) == [md5 |-> text]

generate_message_hash(text) == [md5 |-> Normalize(text)]

\* message_hash of each text that arrives
MessageHash == [text \in Texts |-> generate_message_hash(text)]

\* str(user_id)
Str(n) == CASE n = 1 -> "1" [] n = 2 -> "2" [] OTHER -> "?"

\* message.from_user.first_name if ... else str(user_id)
UserName(u) == IF u.first_name # "" THEN u.first_name ELSE Str(u.id)

-----------------------------------------------------------------------------
(* Timestamps *)

\* strftime('%Y-%m-%d %H:%M:%S') of the moment t
FormatDb(t) == [sep |-> "-", d |-> t \div HoursPerDay, h |-> t % HoursPerDay]

\* strftime('%Y/%m/%d %H:%M:%S') of the moment t
FormatDisplay(t) == [sep |-> "/", d |-> t \div HoursPerDay, h |-> t % HoursPerDay]

\* datetime.strptime(s, '%Y-%m-%d %H:%M:%S'): the moment the string names
Strptime(s) == s.d * HoursPerDay + s.h

\* datetime.now(tz_jakarta): the wall clock of Asia/Jakarta at the moment t
JakartaNow(t) == t + JakartaOffset

\* SQLite datetime('now', '-N day(s)'): a UTC string
SqliteNow(t, days) == FormatDb(t - days * HoursPerDay)

\* text comparison a < b of two timestamp strings of the same format
TextLess(a, b) == a.d < b.d \/ (a.d = b.d /\ a.h < b.h)

-----------------------------------------------------------------------------
(* The table messages *)

NoReply == [chat_id |-> 0]

\* no text is being fingerprinted outside the handlers
NoProbe == [text |-> <<>>, variant |-> <<>>]

NewRowUtc(id, m, t) ==
    [id           |-> id,
     chat_id      |-> m.chat_id,
     message_hash |-> MessageHash[m.text],
     message_text |-> m.text,
     user_id      |-> m.from_user.id,
     timestamp    |-> FormatDb(t),
     user_name    |-> UserName(m.from_user)]

\* the row written by INSERT OR REPLACE INTO messages (..) VALUES (?, ?, ?, ?, ?, ?)
NewRow(id, m, t) ==
    [id           |-> id,
     chat_id      |-> m.chat_id,
     message_hash |-> MessageHash[m.text],
     message_text |-> m.text,
     user_id      |-> m.from_user.id,
     timestamp    |-> FormatDb(JakartaNow(t)),
     user_name    |-> UserName(m.from_user)]

\* UNIQUE(chat_id, message_hash): the rows r conflicts with
Conflicts(tbl, r) ==
    {x \in tbl : x.chat_id = r.chat_id /\ x.message_hash = r.message_hash}

InsertOnly(tbl, r) == tbl \cup {r}

InsertOrMerge(tbl, r) ==
    (tbl \ Conflicts(tbl, r))
       \cup {IF Conflicts(tbl, r) = {} THEN r
             ELSE [r EXCEPT !.user_name =
                              (CHOOSE x \in Conflicts(tbl, r) : TRUE).user_name]}

\* INSERT OR REPLACE: the conflicting rows are deleted, then r is inserted
InsertOrReplace(tbl, r) == (tbl \ Conflicts(tbl, r)) \cup {r}

\* SELECT ... WHERE chat_id = ? AND message_hash = ?
\*             AND timestamp > datetime('now', '-1 day')
SelectLive(tbl, chat, hash, t) ==
    {r \in tbl : /\ r.chat_id = chat
                 /\ r.message_hash = hash
                 /\ TextLess(SqliteNow(t, DedupDays), r.timestamp)}

DeleteOldNoHorizon(tbl, t) ==
    {r \in tbl : ~TextLess(r.timestamp, SqliteNow(t, 0))}

\* DELETE FROM messages WHERE timestamp < datetime("now", "-7 days")
DeleteOld(tbl, t) ==
    {r \in tbl : ~TextLess(r.timestamp, SqliteNow(t, RetentionDays))}

-----------------------------------------------------------------------------
(* handle_message *)

TooShortNoStrip(text) == text = <<>> \/ Len(text) < MinLength

\* if not message.text: return / if len(message_text.strip()) < 5: return
TooShort(text) == text = <<>> \/ Len(Strip(text)) < MinLength

\* the texts that return early
Skipped == {text \in Texts : TooShort(text)}

ExistingOfOthers(tbl, m, t) ==
    {r \in SelectLive(tbl, m.chat_id, MessageHash[m.text], t) :
        r.user_id # m.from_user.id}

\* existing_message: the rows the SELECT of lines 126-131 yields for message m
Existing(tbl, m, t) ==
    SelectLive(tbl, m.chat_id, MessageHash[m.text], t)

ResponseOfSender(existing, m, t) ==
    [original_text |-> m.text,
     first_name    |-> UserName(m.from_user),
     first_time    |-> FormatDisplay(Strptime(existing.timestamp)),
     this_name     |-> UserName(m.from_user),
     this_time     |-> FormatDisplay(JakartaNow(t))]

\* response_message, by its fields
Response(existing, m, t) ==
    [original_text |-> existing.message_text,
     first_name    |-> existing.user_name,
     first_time    |-> FormatDisplay(Strptime(existing.timestamp)),
     this_name     |-> UserName(m.from_user),
     this_time     |-> FormatDisplay(JakartaNow(t))]

Init ==
    /\ now = 0
    /\ rows = {}
    /\ committed = {}
    /\ seq = 0
    /\ awaiting = <<>>
    /\ sent = NoReply
    /\ last = "none"
    /\ swept = 0
    /\ schema = "current"
    /\ conn = "open"
    /\ probe = NoProbe

\* the early returns of lines 109-119
Return(m) ==
    /\ m.text \in Skipped
    /\ sent' = NoReply
    /\ last' = "return"
    /\ swept' = 0
    /\ UNCHANGED <<now, rows, committed, seq, awaiting>>
    /\ UNCHANGED <<probe, schema, conn>>

DuplicateAndUpsert(m) ==
    /\ m.text \notin Skipped
    /\ Len(awaiting) < MaxAwaiting
    /\ seq < MaxId
    /\ \E existing \in Existing(rows, m, now) :
          awaiting' = Append(awaiting,
              [msg |-> m, response |-> Response(existing, m, now), ticked |-> FALSE])
    /\ rows' = InsertOrReplace(rows, NewRow(seq + 1, m, now))
    /\ committed' = rows'
    /\ seq' = seq + 1
    /\ sent' = NoReply
    /\ last' = "reply_text"
    /\ swept' = 0
    /\ UNCHANGED now
    /\ UNCHANGED <<probe, schema, conn>>

\* the if-branch up to the await of reply_text
Duplicate(m) ==
    /\ m.text \notin Skipped
    /\ Len(awaiting) < MaxAwaiting
    /\ \E existing \in Existing(rows, m, now) :
          awaiting' = Append(awaiting,
              [msg |-> m, response |-> Response(existing, m, now), ticked |-> FALSE])
    /\ sent' = NoReply
    /\ last' = "reply_text"
    /\ swept' = 0
    /\ UNCHANGED <<now, rows, committed, seq>>
    /\ UNCHANGED <<probe, schema, conn>>

\* the suspended handlers but the i-th
Resume(q, i) == SubSeq(q, 1, i - 1) \o SubSeq(q, i + 1, Len(q))

\* reply_text returned: the log line, then the sweep and its commit
Replied(i) ==
    /\ i \in 1..Len(awaiting)
    /\ awaiting' = Resume(awaiting, i)
    /\ sent' = [chat_id |-> awaiting[i].msg.chat_id, text |-> awaiting[i].response]
    /\ rows' = DeleteOld(rows, now)
    /\ committed' = rows'
    /\ last' = "duplicate"
    /\ swept' = Cardinality(rows \ rows')
    /\ UNCHANGED <<now, seq>>
    /\ UNCHANGED <<probe, schema, conn>>

\* reply_text raised: except Exception logs the error, the sweep is skipped
ReplyFailed(i) ==
    /\ i \in 1..Len(awaiting)
    /\ awaiting' = Resume(awaiting, i)
    /\ sent' = NoReply
    /\ last' = "error"
    /\ swept' = 0
    /\ UNCHANGED <<now, rows, committed, seq>>
    /\ UNCHANGED <<probe, schema, conn>>

NovelAndReply(m) ==
    /\ m.text \notin Skipped
    /\ Existing(rows, m, now) = {}
    /\ seq < MaxId
    /\ Len(awaiting) < MaxAwaiting
    /\ rows' = DeleteOld(InsertOrReplace(rows, NewRow(seq + 1, m, now)), now)
    /\ committed' = rows'
    /\ seq' = seq + 1
    /\ awaiting' = Append(awaiting,
          [msg |-> m, response |-> Response(NewRow(seq + 1, m, now), m, now),
           ticked |-> FALSE])
    /\ sent' = NoReply
    /\ last' = "novel"
    /\ swept' = 0
    /\ UNCHANGED now
    /\ UNCHANGED <<probe, schema, conn>>

\* the else-branch: the insert and its commit, then the sweep and its commit
Novel(m) ==
    /\ m.text \notin Skipped
    /\ Existing(rows, m, now) = {}
    /\ seq < MaxId
    /\ rows' = DeleteOld(InsertOrReplace(rows, NewRow(seq + 1, m, now)), now)
    /\ committed' = rows'
    /\ seq' = seq + 1
    /\ sent' = NoReply
    /\ last' = "novel"
    /\ swept' = Cardinality(InsertOrReplace(rows, NewRow(seq + 1, m, now)) \ rows')
    /\ UNCHANGED <<now, awaiting>>
    /\ UNCHANGED <<probe, schema, conn>>

handle_message(m) == Return(m) \/ Duplicate(m) \/ Novel(m)

(* Storage faults: a statement of sqlite3 raises (sqlite3.Error), the except  *)
(* of line 173 logs it and the handler returns.  Nothing is rolled back: what *)
(* the connection had executed and not committed stays in its transaction.    *)

\* how far the else-branch got before a statement raised
ElseFaults == {"insert", "commit", "delete"}

\* how far the handler got after reply_text returned before a statement raised
SweepFaults == {"reply", "delete"}

\* the SELECT (or the INSERT) raised: nothing was written
LookupFailed(m) ==
    /\ m.text \notin Skipped
    /\ sent' = NoReply
    /\ last' = "error"
    /\ swept' = 0
    /\ UNCHANGED <<now, rows, committed, seq, awaiting>>
    /\ UNCHANGED <<probe, schema, conn>>

\* the else-branch raised after the statement `done`
UpsertFailed(m, done) ==
    /\ m.text \notin Skipped
    /\ Existing(rows, m, now) = {}
    /\ seq < MaxId
    /\ LET inserted == InsertOrReplace(rows, NewRow(seq + 1, m, now))
       IN  /\ rows' = IF done = "delete" THEN DeleteOld(inserted, now) ELSE inserted
           /\ committed' = IF done = "insert" THEN committed ELSE inserted
           /\ swept' = Cardinality(inserted \ rows')
    /\ seq' = seq + 1
    /\ sent' = NoReply
    /\ last' = "error"
    /\ UNCHANGED <<now, awaiting>>
    /\ UNCHANGED <<probe, schema, conn>>

\* the if-branch raised after reply_text returned, after the statement `done`
SweepFailed(i, done) ==
    /\ i \in 1..Len(awaiting)
    /\ awaiting' = Resume(awaiting, i)
    /\ sent' = [chat_id |-> awaiting[i].msg.chat_id, text |-> awaiting[i].response]
    /\ rows' = IF done = "delete" THEN DeleteOld(rows, now) ELSE rows
    /\ swept' = Cardinality(rows \ rows')
    /\ last' = "error"
    /\ UNCHANGED <<now, committed, seq>>
    /\ UNCHANGED <<probe, schema, conn>>

\* time passes; a handler waits for reply_text for less than two hours
Advance(t) ==
    /\ t > now
    /\ awaiting # <<>> =>
          t = now + 1 /\ \A i \in 1..Len(awaiting) : ~awaiting[i].ticked
    /\ now' = t
    /\ awaiting' = [i \in 1..Len(awaiting) |-> [awaiting[i] EXCEPT !.ticked = TRUE]]
    /\ sent' = NoReply
    /\ last' = "tick"
    /\ swept' = 0
    /\ UNCHANGED <<rows, committed, seq>>
    /\ UNCHANGED <<probe, schema, conn>>

\* the storage works
Next ==
    \/ \E m \in Messages : handle_message(m)
    \/ \E i \in 1..MaxAwaiting : Replied(i)
    \/ \E i \in 1..MaxAwaiting : ReplyFailed(i)
    \/ \E t \in Moments : Advance(t)

Spec == Init /\ [][Next]_vars

\* a statement of the storage may raise
StorageFault ==
    \/ \E m \in Messages : LookupFailed(m)
    \/ \E m \in Messages : \E done \in ElseFaults : UpsertFailed(m, done)
    \/ \E i \in 1..MaxAwaiting : \E done \in SweepFaults : SweepFailed(i, done)

NextFaults == Next \/ StorageFault

SpecFaults == Init /\ [][NextFaults]_vars

-----------------------------------------------------------------------------
(* generate_message_hash on its own: a text and the variants of it that      *)
(* differ from it in letter case and in whitespace only                      *)

ProbeAb == <<"A", "b", " ", "I">>
ProbeDotless == <<DotlessI, " ", "c">>
ProbeTexts == {ProbeAb, ProbeDotless}

\* s with the character c put before position i
InsertAt(s, i, c) == SubSeq(s, 1, i - 1) \o <<c>> \o SubSeq(s, i, Len(s))

\* s without its i-th character
RemoveAt(s, i) == SubSeq(s, 1, i - 1) \o SubSeq(s, i + 1, Len(s))

InitHash ==
    /\ now = 0
    /\ rows = {}
    /\ committed = {}
    /\ seq = 0
    /\ awaiting = <<>>
    /\ sent = NoReply
    /\ last = "none"
    /\ swept = 0
    /\ schema = "current"
    /\ conn = "open"
    /\ \E text \in ProbeTexts : probe = [text |-> text, variant |-> text]

\* the case of the i-th character is switched
SwapCase(i) ==
    /\ i \in 1..Len(probe.variant)
    /\ SwapCaseChar(probe.variant[i]) # probe.variant[i]
    /\ probe' = [probe EXCEPT !.variant[i] = SwapCaseChar(probe.variant[i])]
    /\ UNCHANGED <<now, rows, committed, seq, awaiting, sent, last, swept, schema, conn>>

\* a whitespace run between two words gets one character longer
Widen(i) ==
    /\ i \in 2..Len(probe.variant)
    /\ Len(probe.variant) < MaxLen
    /\ probe.variant[i] \in Whitespace
    /\ probe.variant[i - 1] \notin Whitespace
    /\ LStrip(SubSeq(probe.variant, i, Len(probe.variant))) # <<>>
    /\ probe' = [probe EXCEPT !.variant = InsertAt(probe.variant, i, " ")]
    /\ UNCHANGED <<now, rows, committed, seq, awaiting, sent, last, swept, schema, conn>>

\* a whitespace run between two words gets one character shorter
Narrow(i) ==
    /\ i \in 2..Len(probe.variant) - 1
    /\ probe.variant[i] \in Whitespace
    /\ probe.variant[i + 1] \in Whitespace
    /\ probe.variant[i - 1] \notin Whitespace
    /\ LStrip(SubSeq(probe.variant, i, Len(probe.variant))) # <<>>
    /\ probe' = [probe EXCEPT !.variant = RemoveAt(probe.variant, i)]
    /\ UNCHANGED <<now, rows, committed, seq, awaiting, sent, last, swept, schema, conn>>

\* one whitespace character is put before or behind the text
Pad(front) ==
    /\ Len(probe.variant) < MaxLen
    /\ probe' = [probe EXCEPT !.variant =
                    IF front THEN <<" ">> \o probe.variant
                             ELSE Append(probe.variant, " ")]
    /\ UNCHANGED <<now, rows, committed, seq, awaiting, sent, last, swept, schema, conn>>

\* one leading or trailing whitespace character is taken away
Trim(front) ==
    /\ probe.variant # <<>>
    /\ probe.variant[IF front THEN 1 ELSE Len(probe.variant)] \in Whitespace
    /\ probe' = [probe EXCEPT !.variant =
                    RemoveAt(probe.variant, IF front THEN 1 ELSE Len(probe.variant))]
    /\ UNCHANGED <<now, rows, committed, seq, awaiting, sent, last, swept, schema, conn>>

NextHash ==
    \/ \E i \in 1..MaxLen : SwapCase(i)
    \/ \E i \in 1..MaxLen : Widen(i)
    \/ \E i \in 1..MaxLen : Narrow(i)
    \/ \E front \in BOOLEAN : Pad(front)
    \/ \E front \in BOOLEAN : Trim(front)

SpecHash == InitHash /\ [][NextHash]_vars

-----------------------------------------------------------------------------
(* setup_database on its own: the database file found at start-up, opened,  *)
(* closed by graceful_shutdown and opened again                             *)

\* the columns of CREATE TABLE IF NOT EXISTS messages: a row without user_name
OldColumns(r) ==
    [id           |-> r.id,
     chat_id      |-> r.chat_id,
     message_hash |-> r.message_hash,
     message_text |-> r.message_text,
     user_id      |-> r.user_id,
     timestamp    |-> r.timestamp]

AddColumnNull(tbl) ==
    {[id           |-> r.id,
      chat_id      |-> r.chat_id,
      message_hash |-> r.message_hash,
      message_text |-> r.message_text,
      user_id      |-> r.user_id,
      timestamp    |-> r.timestamp,
      user_name    |-> "NULL"] : r \in tbl}

\* ALTER TABLE messages ADD COLUMN user_name TEXT DEFAULT "Unknown": the rows
\* of the table read back with the default in the new column
AddColumn(tbl) ==
    {[id           |-> r.id,
      chat_id      |-> r.chat_id,
      message_hash |-> r.message_hash,
      message_text |-> r.message_text,
      user_id      |-> r.user_id,
      timestamp    |-> r.timestamp,
      user_name    |-> "Unknown"] : r \in tbl}

\* rows a run of this program left in the file: written by the else-branch,
\* or written before the column existed and given the default since
CurrentRows ==
    {NewRow(id, m, 0) : id \in 1..MaxId, m \in {x \in Messages : x.text \notin Skipped}}
       \cup AddColumn({NewRow(id, m, 0) :
                          id \in 1..MaxId, m \in {x \in Messages : x.text \notin Skipped}})

\* rows a run of the earlier schema left in the file
LegacyRows == {OldColumns(r) : r \in CurrentRows}

\* the tables of at most two of the rows R that PRIMARY KEY and UNIQUE allow
Tables(R) ==
    {t \in {{r1, r2} : r1 \in R, r2 \in R} \cup {{}} :
        \A x \in t : \A y \in t :
           ( x.id = y.id \/ (x.chat_id = y.chat_id /\ x.message_hash = y.message_hash) )
           => x = y}

InitSetup ==
    /\ now = 0
    /\ conn = "closed"
    /\ rows = {}
    /\ \E s \in {"none", "legacy", "current"} :
          /\ schema = s
          /\ committed \in CASE s = "none"   -> {{}}
                             [] s = "legacy" -> Tables(LegacyRows)
                             [] OTHER        -> Tables(CurrentRows)
    /\ seq \in 0..MaxId
    /\ \A r \in committed : r.id <= seq
    /\ schema = "none" => seq = 0
    /\ awaiting = <<>>
    /\ sent = NoReply
    /\ last = "none"
    /\ swept = 0
    /\ probe = NoProbe

\* __init__ calls setup_database: connect, CREATE TABLE IF NOT EXISTS, ALTER
\* TABLE ADD COLUMN (sqlite3.OperationalError, duplicate column name, is
\* passed over when the column is there), commit
setup_database ==
    /\ conn = "closed"
    /\ conn' = "open"
    /\ schema' = "current"
    /\ committed' = IF schema = "current" THEN committed ELSE AddColumn(committed)
    /\ rows' = committed'
    /\ last' = IF schema = "current" THEN "alter_failed" ELSE "altered"
    /\ sent' = NoReply
    /\ swept' = 0
    /\ UNCHANGED <<now, seq, awaiting, probe>>

\* self.conn.close(), then sys.exit(0)
graceful_shutdown ==
    /\ conn = "open"
    /\ conn' = "closed"
    /\ rows' = {}
    /\ awaiting' = <<>>
    /\ last' = "shutdown"
    /\ sent' = NoReply
    /\ swept' = 0
    /\ UNCHANGED <<now, committed, seq, schema, probe>>

NextSetup == setup_database \/ graceful_shutdown

SpecSetup == InitSetup /\ [][NextSetup]_vars

TypeOK ==
    /\ now \in Nat
    /\ seq \in 0..MaxId + 1
    /\ \A r \in rows : r.id \in 1..seq /\ r.timestamp.sep = "-"

-----------------------------------------------------------------------------
(* Vocabulary of the properties *)

DedupWindow == DedupDays * HoursPerDay
RetentionHorizon == RetentionDays * HoursPerDay

\* the fingerprint of a text: the digest of its normal form
Fingerprint == [text \in Texts |-> [md5 |-> Normalize(text)]]

\* the texts whose stripped length is below the threshold
Short == {text \in Texts : Len(Strip(text)) < MinLength}

\* the key of UNIQUE(chat_id, message_hash)
SameKey(r, m) ==
    r.chat_id = m.chat_id /\ r.message_hash = Fingerprint[m.text]

\* the moment a row was stored: its timestamp is the Jakarta wall clock then
StoredAt(r) == Strptime(r.timestamp) - JakartaOffset

\* the row's fields are those of message m processed at the moment t
RowOf(r, m, t) ==
    /\ r.chat_id = m.chat_id
    /\ r.message_text = m.text
    /\ r.user_id = m.from_user.id
    /\ r.user_name = UserName(m.from_user)
    /\ r.timestamp = [sep |-> "-", d |-> (t + JakartaOffset) \div HoursPerDay,
                                   h |-> (t + JakartaOffset) % HoursPerDay]

\* the steps that run the sweep
Sweeps == {"novel", "duplicate"}

-----------------------------------------------------------------------------
\* C1: the table holds at most one row per (chat_id, message_hash), and right
\* after an upsert exactly one row has the key of the row just written.
C1_OneRowPerKey ==
    /\ \A r1, r2 \in rows :
          (r1.chat_id = r2.chat_id /\ r1.message_hash = r2.message_hash) => r1 = r2
    /\ last = "novel" =>
          \E r \in rows :
             /\ r.id = seq
             /\ Cardinality({x \in rows : x.chat_id = r.chat_id
                                          /\ x.message_hash = r.message_hash}) = 1

\* two upserts went to one key (nothing can have been swept yet) and one row is left
C1_Witness ==
    /\ last = "novel"
    /\ seq = 2
    /\ now < RetentionHorizon
    /\ Cardinality(rows) = 1

\* C2: a message whose text differs only in case and whitespace from a row
\* stored one hour earlier in the same chat by another user is processed as a
\* duplicate, and the notice carries the stored text, the first author's name
\* with the stored time and the sender's name with the current time.
C2_DuplicateAfterOneHour ==
    [][\A m \in Messages : \A r \in rows :
          ( /\ StoredAt(r) = now - 1
            /\ r.chat_id = m.chat_id
            /\ r.user_id # m.from_user.id
            /\ Fingerprint[r.message_text] = Fingerprint[m.text]
            /\ handle_message(m) )
          => /\ last' = "reply_text"
             /\ \E c \in {awaiting'[Len(awaiting')]} :
                   /\ awaiting' = Append(awaiting, c)
                   /\ c.msg = m
                   /\ c.response.original_text = r.message_text
                   /\ c.response.first_name = r.user_name
                   /\ c.response.first_time =
                         [sep |-> "/", d |-> (now - 1 + JakartaOffset) \div HoursPerDay,
                                       h |-> (now - 1 + JakartaOffset) % HoursPerDay]
                   /\ c.response.this_name = UserName(m.from_user)
                   /\ c.response.this_time =
                         [sep |-> "/", d |-> (now + JakartaOffset) \div HoursPerDay,
                                       h |-> (now + JakartaOffset) % HoursPerDay]
      ]_vars

\* "Ab  Cd" by Ann at 0, " aB cd" by user 2 at 1: the notice was delivered
C2_Witness ==
    /\ last = "duplicate"
    /\ sent = [chat_id |-> 1,
               text |-> [original_text |-> TextHello,
                         first_name    |-> "Ann",
                         first_time    |-> [sep |-> "/", d |-> 0, h |-> 7],
                         this_name     |-> "2",
                         this_time     |-> [sep |-> "/", d |-> 0, h |-> 8]]]

\* C3: a row stored 24 hours or more before now is not live: a message of its
\* chat and fingerprint is processed as novel and its upsert replaces the row
\* with the message's text, author and timestamp.
C3_NovelAfterWindow ==
    [][\A m \in Messages : \A r \in rows :
          ( /\ now - StoredAt(r) >= DedupWindow
            /\ SameKey(r, m)
            /\ m.text \notin Short
            /\ handle_message(m) )
          => /\ last' = "novel"
             /\ r \notin rows'
             /\ \E x \in rows' : SameKey(x, m) /\ RowOf(x, m, now)
      ]_vars

\* C4: the lookup finds a row of the message's chat and fingerprint exactly
\* when the row's recorded_at is strictly later than the current civil time
\* minus 24 hours, and the lookup itself changes no row.
C4_LookupWindow ==
    [][\A m \in Messages :
          ( m.text \notin Short /\ handle_message(m) )
          => /\ (last' = "reply_text") <=>
                   (\E r \in rows :
                       /\ SameKey(r, m)
                       /\ Strptime(r.timestamp) > (now + JakartaOffset) - DedupWindow)
             /\ last' = "reply_text" => rows' = rows
      ]_vars

\* C5: the steps of a duplicate cycle write no row, and leave the rows of the
\* message's chat and fingerprint exactly as they were.
C5_DuplicateLeavesRow ==
    [][ /\ \A m \in Messages :
              (last' = "reply_text" /\ handle_message(m))
              => rows' = rows /\ seq' = seq
        /\ \A i \in 1..Len(awaiting) :
              (Replied(i) \/ ReplyFailed(i))
              => /\ seq' = seq
                 /\ rows' \subseteq rows
                 /\ {r \in rows' : SameKey(r, awaiting[i].msg)}
                       = {r \in rows : SameKey(r, awaiting[i].msg)}
      ]_vars

\* a duplicate cycle has ended and the row it matched is in the table
C5_Witness ==
    /\ last = "duplicate"
    /\ sent # NoReply
    /\ \E r \in rows :
          /\ r.chat_id = sent.chat_id
          /\ r.message_text = sent.text.original_text
          /\ r.user_name = sent.text.first_name
          /\ FormatDisplay(Strptime(r.timestamp)) = sent.text.first_time

\* C6 as stated: every sighting of a row's fingerprint in its chat within the
\* dedup window leaves the row with the fields of that sighting.
C6_OverwrittenOnEverySighting ==
    [][\A m \in Messages : \A r \in rows :
          ( /\ now - StoredAt(r) < DedupWindow
            /\ SameKey(r, m)
            /\ m.text \notin Short
            /\ handle_message(m) )
          => \E x \in rows' : SameKey(x, m) /\ RowOf(x, m, now)
      ]_vars

\* C6 amended: a sighting of a row's fingerprint in its chat overwrites the row
\* exactly when the lookup finds no live row (the message is processed as
\* novel): then the one row of the key has the fields of that sighting;
\* otherwise the row stays as it was.
C6_OverwrittenWhenNotLive ==
    [][\A m \in Messages : \A r \in rows :
          ( /\ SameKey(r, m)
            /\ m.text \notin Short
            /\ handle_message(m) )
          => IF last' = "novel"
             THEN /\ r \notin rows'
                  /\ \A x \in rows' : SameKey(x, m) => RowOf(x, m, now)
                  /\ \E x \in rows' : SameKey(x, m)
             ELSE /\ last' = "reply_text"
                  /\ r \in rows'
                  /\ \A x \in rows' : SameKey(x, m) => x = r
      ]_vars

\* the row of chat 1 stored at 0 was overwritten at 31 by the second sighting
C6_Witness ==
    /\ last = "novel"
    /\ now = 31
    /\ \E r \in rows : r.id = 2 /\ RowOf(r, Message(1, UserB, TextHello2), 31)
    /\ ~\E r \in rows : r.id = 1

\* C7: after a step that ran the sweep the table holds no row stored 7 days
\* or more before now.
C7_NothingOlderThanRetention ==
    last \in Sweeps => \A r \in rows : now - StoredAt(r) < RetentionHorizon

\* C8: the sweep deletes exactly the rows whose recorded_at is earlier than
\* the current civil time minus 7 days, in every chat, and changes no other.
C8_SweepExact ==
    [][ /\ \A i \in 1..Len(awaiting) :
              Replied(i)
              => rows' = {r \in rows :
                            ~(Strptime(r.timestamp) < (now + JakartaOffset) - RetentionHorizon)}
        /\ \A m \in Messages :
              (last' = "novel" /\ handle_message(m))
              => \A r \in rows :
                    ~SameKey(r, m) =>
                       (r \in rows' <=>
                          ~(Strptime(r.timestamp) < (now + JakartaOffset) - RetentionHorizon))
      ]_vars

\* C9: a message whose stripped text is shorter than 5 characters is dropped:
\* the table, the id sequence and the suspended handlers stay as they were and
\* no reply is sent.
C9_ShortMessageDiscarded ==
    [][\A m \in Messages :
          ( m.text \in Short /\ handle_message(m) )
          => /\ last' = "return"
             /\ rows' = rows
             /\ seq' = seq
             /\ awaiting' = awaiting
             /\ sent' = NoReply
      ]_vars

\* a short message was dropped while the table held rows
C9_Witness == last = "return" /\ rows # {}

\* C10: a message whose chat and fingerprint have a row stored less than 24
\* hours ago is processed as a duplicate whoever its author is, the author of
\* the stored row included.
C10_SelfDuplicate ==
    [][\A m \in Messages : \A r \in rows :
          ( /\ now - StoredAt(r) < DedupWindow
            /\ SameKey(r, m)
            /\ m.text \notin Short
            /\ handle_message(m) )
          => /\ last' = "reply_text"
             /\ rows' = rows
             /\ awaiting' # <<>>
             /\ Len(awaiting') = Len(awaiting) + 1
             /\ awaiting'[Len(awaiting')].msg = m
             /\ awaiting'[Len(awaiting')].response.first_name = r.user_name
      ]_vars

\* the author of the stored row posted it again and the notice is on its way
C10_Witness ==
    /\ last = "reply_text"
    /\ \E i \in 1..Len(awaiting) : \E r \in rows :
          /\ SameKey(r, awaiting[i].msg)
          /\ r.user_id = awaiting[i].msg.from_user.id
          /\ awaiting[i].response.first_name = awaiting[i].response.this_name

\* C11: a message is processed as a duplicate only if its own chat holds a
\* live row (stored less than 24 hours ago) of its fingerprint, and an upsert
\* creates or changes no row of another chat.
C11_PartitionedPerChat ==
    [][\A m \in Messages :
          ( m.text \notin Short /\ handle_message(m) )
          => /\ last' = "reply_text" =>
                   \E r \in rows : /\ SameKey(r, m)
                                   /\ now - StoredAt(r) < DedupWindow
             /\ {r \in rows' : r.chat_id # m.chat_id}
                   \subseteq {r \in rows : r.chat_id # m.chat_id}
      ]_vars

\* C11, the partition alone: a duplicate has a row of its own chat and
\* fingerprint, whatever the age of the row, and no row of another chat is
\* created or changed.
C11_PartitionAlone ==
    [][\A m \in Messages :
          ( m.text \notin Short /\ handle_message(m) )
          => /\ last' = "reply_text" => \E r \in rows : SameKey(r, m)
             /\ {r \in rows' : r.chat_id # m.chat_id}
                   \subseteq {r \in rows : r.chat_id # m.chat_id}
      ]_vars

\* C12: when a cycle that passed the length filter has ended, as a novel
\* message, as a duplicate or in an error, its sweep has run: no row is older
\* than the horizon of the DELETE, datetime('now', '-7 days').
C12_SweepInEveryCycle ==
    last \in {"novel", "duplicate", "error"} =>
        \A r \in rows :
           ~( \/ r.timestamp.d < (now - RetentionHorizon) \div HoursPerDay
              \/ /\ r.timestamp.d = (now - RetentionHorizon) \div HoursPerDay
                 /\ r.timestamp.h < (now - RetentionHorizon) % HoursPerDay )

\* C13: a cycle that ended in the except branch has sent no reply.
C13_NoReplyOnFailure ==
    last = "error" => sent = NoReply

\* C14: every message is processed on a table that holds committed rows only:
\* no write of a cycle that ended in a fault is left uncommitted in it.
C14_FaultsContained ==
    [][\A m \in Messages :
          ( m.text \notin Short /\ (handle_message(m) \/ LookupFailed(m)) )
          => rows = committed
      ]_vars

\* C15: a cycle calls reply_text exactly when it is a duplicate: a duplicate
\* cycle calls it once, for its own message and chat, and writes no row; a
\* novel cycle writes its row and calls nothing; a reply is delivered only by
\* the one call of a duplicate cycle, in the chat of its message.
C15_ReplyIffDuplicate ==
    [][ /\ \A m \in Messages :
              ( m.text \notin Short /\ handle_message(m) )
              => IF last' = "reply_text"
                 THEN /\ Len(awaiting') = Len(awaiting) + 1
                      /\ SubSeq(awaiting', 1, Len(awaiting)) = awaiting
                      /\ awaiting'[Len(awaiting')].msg = m
                      /\ rows' = rows
                      /\ seq' = seq
                      /\ sent' = NoReply
                 ELSE /\ last' = "novel"
                      /\ awaiting' = awaiting
                      /\ sent' = NoReply
                      /\ seq' = seq + 1
                      /\ \E x \in rows' : x.id = seq' /\ RowOf(x, m, now)
        /\ \A i \in 1..Len(awaiting) :
              (Replied(i) \/ ReplyFailed(i))
              => /\ awaiting' = Resume(awaiting, i)
                 /\ seq' = seq
                 /\ rows' \subseteq rows
                 /\ sent' # NoReply =>
                       /\ sent'.chat_id = awaiting[i].msg.chat_id
                       /\ sent'.text = awaiting[i].response
        /\ sent' # NoReply => Len(awaiting') = Len(awaiting) - 1
      ]_vars

\* chat 2 got the notice of its duplicate; the one row is that of the novel cycle
C15_Witness ==
    /\ last = "duplicate"
    /\ sent # NoReply
    /\ sent.chat_id = 2
    /\ awaiting = <<>>
    /\ seq = 1
    /\ Cardinality(rows) = 1

\* the letters whose upper case str.lower() maps back to their lower case
RoundTrip == {c \in {"a", "b", "c", "i", "A", "B", "C", "I", DotlessI} :
                 LowerChar(UpperChar(c)) = LowerChar(c)}

\* C16 as stated: a text and any variant of it that differs only in letter
\* case, in the length of whitespace runs and in leading or trailing
\* whitespace have the same fingerprint.
C16_SameFingerprint ==
    generate_message_hash(probe.variant) = generate_message_hash(probe.text)

\* C16 amended: when the letters of a text are letters whose upper case
\* str.lower() maps back to their lower case, the text and any variant of it
\* that differs only in letter case, in the length of whitespace runs and in
\* leading or trailing whitespace have the same fingerprint.
C16_SameFingerprintRoundTrip ==
    (\A i \in 1..Len(probe.text) : probe.text[i] \in Whitespace \cup RoundTrip)
    => generate_message_hash(probe.variant) = generate_message_hash(probe.text)

\* "Ab I" and "  aB  i", which differs from it in all three ways
C16_Witness ==
    /\ probe.text = ProbeAb
    /\ probe.variant = <<" ", "a", "B", " ", " ", "i">>

\* C17: while a handler is suspended at reply_text for a key, every step of
\* another cycle of that key, and the end of the suspended cycle, leave
\* exactly one row of the key, and that row is either the row that was there
\* or, whole, the row of the one upsert of the step.
C17_OneWinner ==
    [][\A i \in 1..Len(awaiting) :
          /\ \A m \in Messages :
                ( /\ m.chat_id = awaiting[i].msg.chat_id
                  /\ Fingerprint[m.text] = Fingerprint[awaiting[i].msg.text]
                  /\ handle_message(m) )
                => /\ Cardinality({r \in rows' : SameKey(r, m)}) = 1
                   /\ \A r \in rows' :
                         SameKey(r, m) =>
                            \/ r \in rows /\ last' = "reply_text"
                            \/ /\ last' = "novel"
                               /\ r.id = seq'
                               /\ r.message_hash = Fingerprint[m.text]
                               /\ RowOf(r, m, now)
          /\ (Replied(i) \/ ReplyFailed(i))
                => /\ Cardinality({r \in rows' : SameKey(r, awaiting[i].msg)}) = 1
                   /\ {r \in rows' : SameKey(r, awaiting[i].msg)} \subseteq rows
      ]_vars

\* a cycle stored the row of a key anew while the handler of an earlier
\* message of the key, by another user, was still waiting for reply_text
C17_Witness ==
    /\ last = "novel"
    /\ awaiting # <<>>
    /\ \E r \in rows :
          /\ r.id = seq
          /\ SameKey(r, awaiting[1].msg)
          /\ r.user_id # awaiting[1].msg.from_user.id
          /\ Cardinality({x \in rows : SameKey(x, awaiting[1].msg)}) = 1

\* C18: a row that a sweep deletes is not a row the lookup of its chat and
\* fingerprint returns at that moment, and was not stored within the last 24
\* hours; and no sweep deletes the row of the key of a handler that found it
\* live and is suspended at reply_text.
C18_SweepSparesLive ==
    [][ /\ \A i \in 1..Len(awaiting) :
              Replied(i)
              => \A r \in rows \ rows' :
                    /\ r \notin SelectLive(rows, r.chat_id, r.message_hash, now)
                    /\ ~(now - StoredAt(r) < DedupWindow)
                    /\ \A j \in 1..Len(awaiting) : ~SameKey(r, awaiting[j].msg)
        /\ \A m \in Messages :
              ( last' = "novel" /\ handle_message(m) )
              => \A r \in rows \ rows' :
                    ~SameKey(r, m)
                    => /\ r \notin SelectLive(rows, r.chat_id, r.message_hash, now)
                       /\ ~(now - StoredAt(r) < DedupWindow)
                       /\ \A j \in 1..Len(awaiting) : ~SameKey(r, awaiting[j].msg)
      ]_vars

\* the sweep of a duplicate cycle deleted a row and left the live row of the
\* cycle's key, which the lookup still returns
C18_Witness ==
    /\ last = "duplicate"
    /\ swept > 0
    /\ sent # NoReply
    /\ \E r \in rows :
          /\ r.chat_id = sent.chat_id
          /\ r.message_text = sent.text.original_text
          /\ r \in SelectLive(rows, r.chat_id, r.message_hash, now)

\* C19: a message is processed as a duplicate only when the table holds one
\* row of its chat and fingerprint; that row is, whole, the row a novel
\* message of that chat and fingerprint wrote at an earlier or the same
\* moment, and the notice shows its text, author name and time.  Rows are
\* written by novel cycles only, and a novel cycle leaves its own row as the
\* only row of its key, so the row is that of the latest novel message.
C19_NoFalseDuplicate ==
    [][ /\ \A m \in Messages :
              ( m.text \notin Short /\ handle_message(m) )
              => IF last' = "reply_text"
                 THEN \E r \in rows :
                         /\ {x \in rows : SameKey(x, m)} = {r}
                         /\ r \in rows'
                         /\ r.id \in 1..seq
                         /\ StoredAt(r) <= now
                         /\ \E m0 \in Messages :
                               /\ m0.chat_id = m.chat_id
                               /\ Fingerprint[m0.text] = Fingerprint[m.text]
                               /\ m0.text \notin Short
                               /\ RowOf(r, m0, StoredAt(r))
                         /\ \E c \in {awaiting'[Len(awaiting')]} :
                               /\ c.response.original_text = r.message_text
                               /\ c.response.first_name = r.user_name
                               /\ c.response.first_time.d = r.timestamp.d
                               /\ c.response.first_time.h = r.timestamp.h
                 ELSE /\ last' = "novel"
                      /\ \E r \in rows' :
                            /\ {x \in rows' : SameKey(x, m)} = {r}
                            /\ r.id = seq'
                            /\ RowOf(r, m, now)
        /\ rows' \ rows # {} => last' = "novel"
      ]_vars

\* the row of the key was written twice, and the notice on its way to the
\* author of the first row shows the second row's author
C19_Witness ==
    /\ last = "reply_text"
    /\ now = 31
    /\ Cardinality(rows) = 1
    /\ \E i \in 1..Len(awaiting) : \E r \in rows :
          /\ SameKey(r, awaiting[i].msg)
          /\ r.id = 2
          /\ r.user_id # awaiting[i].msg.from_user.id
          /\ awaiting[i].response.first_name = r.user_name
          /\ awaiting[i].response.original_text = r.message_text

\* C20: setup_database keeps every row of the file with the columns it had
\* unchanged; the rows of a table that had no user_name column read back
\* with user_name "Unknown"; and on a file that has the column it changes
\* neither the schema nor any row.
C20_MigrationKeepsRows ==
    [][ setup_database
        => /\ Cardinality(committed') = Cardinality(committed)
           /\ {OldColumns(r) : r \in committed'} = {OldColumns(r) : r \in committed}
           /\ rows' = committed'
           /\ schema' = "current"
           /\ schema = "legacy" => \A r \in rows' : r.user_name = "Unknown"
           /\ schema = "current" => committed' = committed
      ]_vars

\* a file of the earlier schema with two rows was opened: the column was
\* added and both rows read back with the default
C20_Witness ==
    /\ last = "altered"
    /\ conn = "open"
    /\ Cardinality(rows) = 2
    /\ \A r \in rows : r.user_name = "Unknown"

====
